---------------------------- MODULE Spec2Model ----------------------------
(***************************************************************************)
(* The quota-aware geocoding pipeline of src/app.py: the durable monthly   *)
(* request counter (load_request_count / save_request_count), the address  *)
(* normalizer (correct_address_with_gemini), the geocoding call            *)
(* (geocode_address), the coordinate refiner (refine_coordinates) and the  *)
(* per-record loop of perform_geocoding.                                    *)
(*                                                                         *)
(* A run of perform_geocoding is a process with a program counter; the     *)
(* external services (text completion, geocoding, file system) answer      *)
(* nondeterministically from the sets of replies enumerated below.         *)
(***************************************************************************)
EXTENDS Integers, Sequences, FiniteSets, TLC

(***************************************************************************)
(* Bounds of the model.                                                    *)
(***************************************************************************)
MaxRows == 2        \* rows of an uploaded table
MaxCand == 2        \* candidates in one geocoding answer
MaxMonth == 2       \* calendar months the clock passes through
MaxRuns == 2        \* runs of perform_geocoding started in one behaviour
MaxRenders == 2     \* page renders (script runs of main) in one behaviour

(***************************************************************************)
(* Program constants.                                                      *)
(***************************************************************************)
REQUEST_LIMIT == 9800

\* Python's None: the value of an absent latitude / longitude (line 103-104)
\* and of a JSON null.
None == 0

\* The sessions that may run the script.  Each holds the locals of one call
\* of perform_geocoding.
Runs == {"A", "B"}

(***************************************************************************)
(* Values.                                                                 *)
(***************************************************************************)
\* A JSON / Python value found under the "count" key.
IntVal(n) == [t |-> "int", v |-> n]
StrVal == [t |-> "str", v |-> 0]
Missing == [t |-> "missing", v |-> 0]

\* Contents of request_count.json.  month = NoMonth: the object has no
\* "month" key (data.get("month") is None).
NoMonth == 0
Months == 1..MaxMonth
AbsentFile == [kind |-> "absent", month |-> NoMonth, count |-> Missing]
UnreadableFile == [kind |-> "unreadable", month |-> NoMonth, count |-> Missing]
BadJsonFile == [kind |-> "badjson", month |-> NoMonth, count |-> Missing]
NonObjectFile == [kind |-> "nonobj", month |-> NoMonth, count |-> Missing]
ObjectFile(m, c) == [kind |-> "obj", month |-> m, count |-> c]

\* The counts a quota file may hold when a behaviour starts.
StartCounts == {0, REQUEST_LIMIT - 1, REQUEST_LIMIT, REQUEST_LIMIT + 1}

\* The quota files a behaviour may start with, in month 1: no file, a file
\* that cannot be read or parsed, and objects with or without the month of
\* the start and with an integer, a string or no count.  (A file of an
\* earlier month is read like one without a month; files of the months
\* before the current one arise when the clock ticks.)
InitialFiles ==
    {AbsentFile, UnreadableFile, BadJsonFile, NonObjectFile}
    \cup {ObjectFile(m, c) : m \in {NoMonth, 1},
                             c \in {IntVal(n) : n \in StartCounts}
                                   \cup {StrVal, Missing}}

(***************************************************************************)
(* Quota store.                                                            *)
(***************************************************************************)
\* {"month": current_month, "count": 0}
FreshCounter(current_month) == [month |-> current_month, count |-> IntVal(0)]

\* load_request_count, by the branch the file's content takes:
\*   not os.path.exists                    -> fresh
\*   open / read fails, json.load fails    -> except Exception -> fresh
\*   JSON that is no object: data.get raises AttributeError -> fresh
\*   data.get("month") != current_month    -> fresh
\*   otherwise the object as it was read
load_request_count(file, current_month) ==
    IF file.kind = "absent" THEN FreshCounter(current_month)
    ELSE IF file.kind \in {"unreadable", "badjson", "nonobj"}
         THEN FreshCounter(current_month)
    ELSE IF file.month # current_month THEN FreshCounter(current_month)
    ELSE [month |-> file.month, count |-> file.count]

\* What save_request_count can do to the file.  open(..., "w") truncates the
\* file before json.dump writes: "ok" replaces the content, "open_fails"
\* raises before the file is touched, "write_fails" raises after the
\* truncation and leaves a file that is no JSON.
SaveOutcomes == {"ok", "open_fails", "write_fails"}

save_request_count(file, data, outcome) ==
    CASE outcome = "ok" -> ObjectFile(data.month, data.count)
      [] outcome = "open_fails" -> file
      [] outcome = "write_fails" -> BadJsonFile


(***************************************************************************)
(* The text-completion service (model.generate_content).                   *)
(***************************************************************************)
\* What one call of model.generate_content can produce:
\*   kind "text"       a response whose .text is the body described by form
\*   kind "notext"     a falsy response, or one without a text attribute
\*   kind "rate_limit" raises; the service signals HTTP 429
\*   kind "error"      raises another failure, whose message has no "429"
\*   kind "error429"   raises another failure (not a rate limit) whose
\*                     message happens to contain the characters 429
\* form describes the body after .strip():
\*   "empty"  "" ; "prose" text that is no JSON ; "number" / "null" / "list" /
\*   "string" JSON that is no object ; "object" a JSON object.
\* haslat / haslng: for an object, the key is present; for a list, the string
\* is an element; for a string, it is a substring.  lat / lng: the values of
\* an object's keys (None for JSON null).
TextReply(form, haslat, haslng, lat, lng) ==
    [kind |-> "text", form |-> form, haslat |-> haslat, haslng |-> haslng,
     lat |-> lat, lng |-> lng]
BareReply(kind) ==
    [kind |-> kind, form |-> "empty", haslat |-> FALSE, haslng |-> FALSE,
     lat |-> None, lng |-> None]

\* Coordinates a refinement answer may carry (tokens, distinct from the
\* geocoder's).
RefinedLat == 21
RefinedLng == 31

FailureReplies == {BareReply("rate_limit"), BareReply("error"), BareReply("error429")}

NormalizerReplies ==
    {TextReply("empty", FALSE, FALSE, None, None),
     TextReply("prose", FALSE, FALSE, None, None),
     BareReply("notext")}
    \cup FailureReplies

RefinerReplies ==
    {TextReply("empty", FALSE, FALSE, None, None),
     TextReply("prose", FALSE, FALSE, None, None),
     TextReply("number", FALSE, FALSE, None, None),
     TextReply("null", FALSE, FALSE, None, None),
     TextReply("list", TRUE, TRUE, None, None),
     TextReply("string", TRUE, TRUE, None, None),
     TextReply("object", FALSE, FALSE, None, None),
     TextReply("object", TRUE, FALSE, RefinedLat, None),
     TextReply("object", FALSE, TRUE, None, RefinedLng),
     BareReply("notext")}
    \cup {TextReply("object", TRUE, TRUE, a, RefinedLng) : a \in {None, RefinedLat}}
    \cup FailureReplies

NoReply == BareReply("none")

\* "429" in str(e), for the failure the service raised.
MessageHas429(reply) == reply.kind \in {"rate_limit", "error429"}

\* response.text.strip() if response and hasattr(response, "text") else ""
ResponseForm(reply) == IF reply.kind = "text" THEN reply.form ELSE "empty"

(***************************************************************************)
(* Address normalizer.                                                     *)
(***************************************************************************)
\* An address string: the raw address of row base, or the text the
\* normalizer put in its place.
RawAddress(k) == [base |-> k, corrected |-> FALSE]
CorrectedAddress(k) == [base |-> k, corrected |-> TRUE]

\* correct_address_with_gemini: the address returned and what is reported
\* with st.error.
correct_address_with_gemini(reply, address) ==
    IF reply.kind \in {"text", "notext"}
    THEN [address |-> IF ResponseForm(reply) # "empty"
                      THEN CorrectedAddress(address.base) ELSE address,
          report |-> "none"]
    ELSE IF MessageHas429(reply)
         THEN [address |-> address, report |-> "none"]
         ELSE [address |-> address, report |-> "norm_error"]

(***************************************************************************)
(* Coordinate refiner.                                                     *)
(***************************************************************************)
\* json.loads(text): raises JSONDecodeError for "" and for text that is no
\* JSON.
JsonDecodeError(form) == form \in {"empty", "prose"}

\* `"lat" in refined` raises TypeError when refined is a number or null.
InRaisesTypeError(form) == form \in {"number", "null"}

\* refined["lat"] raises TypeError when refined is a list or a string.
IndexRaisesTypeError(form) == form \in {"list", "string"}

\* Mutant of HasBothKeys: `or` in place of `and`.
HasEitherKey(reply) == reply.haslat \/ reply.haslng

\* The test of line 75: "lat" in refined and "lng" in refined.
HasBothKeys(reply) == reply.haslat /\ reply.haslng

\* refine_coordinates: the pair returned and what is reported (st.warning,
\* st.error).
refine_coordinates(reply, current_lat, current_lng) ==
    LET fallback(rep) == [lat |-> current_lat, lng |-> current_lng, report |-> rep]
        form == ResponseForm(reply)
    IN  IF reply.kind \notin {"text", "notext"}
        THEN \* generate_content raised: except Exception
             IF MessageHas429(reply) THEN fallback("none")
             ELSE fallback("refine_error")
        ELSE IF JsonDecodeError(form) THEN fallback("none")
        ELSE IF InRaisesTypeError(form) THEN fallback("refine_error")
        ELSE IF HasBothKeys(reply)
             THEN IF IndexRaisesTypeError(form) THEN fallback("refine_error")
                  ELSE [lat |-> reply.lat, lng |-> reply.lng, report |-> "none"]
             ELSE fallback("refine_warning")

(***************************************************************************)
(* Geocoding service.                                                      *)
(***************************************************************************)
LocationTypes == {"ROOFTOP", "APPROXIMATE"}

\* The k-th candidate of an answer: its location tells the candidates apart.
Candidate(k, type) == [location_type |-> type, lat |-> k, lng |-> 10 + k]

CandidateLists ==
    UNION {{[k \in 1..n |-> Candidate(k, types[k])] : types \in [1..n -> LocationTypes]}
           : n \in 0..MaxCand}

\* What gmaps.geocode can do: return a list of candidates, or raise one of
\* the exceptions of googlemaps.exceptions.
GeocodeOutcome(kind, cands) == [kind |-> kind, cands |-> cands]
GeocodeErrors == {"ApiError", "HTTPError", "Timeout", "TransportError"}
GeocodeOutcomes ==
    {GeocodeOutcome("ok", c) : c \in CandidateLists}
    \cup {GeocodeOutcome(e, <<>>) : e \in GeocodeErrors}

\* A value of geocode_result: None, or a list of candidates.
NoneResult == [none |-> TRUE, cands |-> <<>>]
ListResult(c) == [none |-> FALSE, cands |-> c]

\* The exceptions the try of geocode_address catches (line 95).
CaughtByGeocodeAddress == {"ApiError"}

\* geocode_address: the exception that leaves it ("none": it returns), the
\* value returned and what is reported with st.error.
geocode_address(outcome) ==
    IF outcome.kind = "ok"
    THEN [raised |-> "none", result |-> ListResult(outcome.cands), report |-> "none"]
    ELSE IF outcome.kind \in CaughtByGeocodeAddress
         THEN [raised |-> "none", result |-> NoneResult, report |-> "gmaps_error"]
         ELSE [raised |-> outcome.kind, result |-> NoneResult, report |-> "none"]

\* if geocode_result: (None and [] are falsy)
Truthy(result) == ~result.none /\ result.cands # <<>>

IsRooftop(c) == c.location_type = "ROOFTOP"

\* Mutant of SelectLocation: the ROOFTOP candidates are not preferred.
SelectFirstCandidate(cands) == [lat |-> cands[1].lat, lng |-> cands[1].lng]

\* Lines 132-136: the location of the first ROOFTOP candidate, else of the
\* first candidate.
SelectLocation(cands) ==
    LET rooftop_results == SelectSeq(cands, IsRooftop)
    IN  IF rooftop_results # <<>>
        THEN [lat |-> rooftop_results[1].lat, lng |-> rooftop_results[1].lng]
        ELSE [lat |-> cands[1].lat, lng |-> cands[1].lng]

NoLocation == [lat |-> None, lng |-> None]

(***************************************************************************)
(* State.                                                                  *)
(***************************************************************************)
VARIABLES
    store,          \* the content of request_count.json
    now,            \* the calendar month of datetime.now()
    runsStarted,    \* calls of perform_geocoding made so far
    probes,         \* calls of gmaps.geocode made by check_google_maps_status
    run             \* per session: the locals of its call of perform_geocoding

vars == <<store, now, runsStarted, probes, run>>

\* The dataframe after lines 103-104: one row per input record, in input
\* order, with the two new columns set to None.
Table(n) == [k \in 1..n |-> [address |-> RawAddress(k), latitude |-> None, longitude |-> None]]

NoCalls == [normalizer |-> 0, geocoder |-> 0, refiner |-> 0, save |-> 0]

\* The locals of perform_geocoding.  pc is the position in the function:
\*   "idle"       not called yet
\*   "loop"       at the top of a loop iteration (line 115)
\*   "normalize"  before model.generate_content of line 51
\*   "normalized" inside correct_address_with_gemini, the service has answered
\*   "geocode"    before gmaps.geocode (line 93)
\*   "save"       before save_request_count (line 129)
\*   "select"     at line 131
\*   "refine"     before model.generate_content of line 72
\*   "refined"    inside refine_coordinates, the service has answered
\*   "done"       the statistics are reported and df is returned (line 157)
\*   "crashed"    an exception left perform_geocoding; exc names it
\* input, loaded, calls and reported record the history of the run: the
\* addresses as uploaded, the count read at line 109, the external calls made
\* so far, and what was reported to the user while the current record was
\* processed.
IdleRun ==
    [pc |-> "idle", exc |-> "none",
     input |-> <<>>, df |-> <<>>, index |-> 0,
     counter_data |-> FreshCounter(NoMonth), monthly_count |-> IntVal(0),
     loaded |-> IntVal(0),
     success_count |-> 0, fail_count |-> 0,
     normalized_address |-> RawAddress(0),
     geocode_result |-> NoneResult, location |-> NoLocation,
     reply |-> NoReply, reported |-> {}, calls |-> NoCalls]

Init ==
    /\ store \in InitialFiles
    /\ now = 1
    /\ runsStarted = 0
    /\ probes = 0
    /\ run = [r \in Runs |-> IdleRun]

(***************************************************************************)
(* perform_geocoding, step by step.                                        *)
(***************************************************************************)
Raise(locals, exception) == [locals EXCEPT !.pc = "crashed", !.exc = exception]

\* Lines 100-113: the two columns are added, the counter is loaded and
\* counter_data["count"] is read (KeyError when the key is missing).
StartRun(r, sizes) ==
    /\ run[r].pc \in {"idle", "done", "crashed"}
    /\ runsStarted < MaxRuns
    /\ \E n \in sizes :
          LET data == load_request_count(store, now)
              begun == [IdleRun EXCEPT !.input = [k \in 1..n |-> RawAddress(k)],
                                       !.df = Table(n),
                                       !.counter_data = data,
                                       !.loaded = data.count]
          IN  run' = [run EXCEPT ![r] =
                        IF data.count.t = "missing"
                        THEN Raise(begun, "KeyError")
                        ELSE [begun EXCEPT !.pc = "loop", !.monthly_count = data.count]]
    /\ runsStarted' = runsStarted + 1
    /\ UNCHANGED <<store, now, probes>>

\* Mutant of LimitReached: the ceiling tested with > in place of >=.
LimitReachedStrict(monthly_count) == monthly_count > REQUEST_LIMIT

\* if monthly_count >= REQUEST_LIMIT
LimitReached(monthly_count) == monthly_count >= REQUEST_LIMIT

\* The locals of the previous iteration that the next one overwrites before
\* it reads them (and that are gone when the function returns).
NextRecord(locals) ==
    [locals EXCEPT !.normalized_address = RawAddress(0),
                   !.geocode_result = NoneResult,
                   !.location = NoLocation,
                   !.reported = {}]

\* Lines 115-118 and, when the rows are exhausted, lines 149-157.  Comparing
\* a str with an int raises TypeError.
LoopTop(r) ==
    /\ run[r].pc = "loop"
    /\ run' = [run EXCEPT ![r] =
                 IF @.index = Len(@.df) THEN [NextRecord(@) EXCEPT !.pc = "done"]
                 ELSE IF @.monthly_count.t # "int" THEN Raise(@, "TypeError")
                 ELSE IF LimitReached(@.monthly_count.v)
                      THEN [NextRecord(@) EXCEPT !.pc = "done",
                                                 !.reported = {"limit_warning"}]
                      ELSE [NextRecord(@) EXCEPT !.pc = "normalize"]]
    /\ UNCHANGED <<store, now, runsStarted, probes>>

\* Line 122 up to the answer of model.generate_content (line 51).
NormalizeCall(r, replies) ==
    /\ run[r].pc = "normalize"
    /\ \E rep \in replies :
          run' = [run EXCEPT ![r] =
                    [@ EXCEPT !.pc = "normalized", !.reply = rep,
                              !.calls.normalizer = @ + 1]]
    /\ UNCHANGED <<store, now, runsStarted, probes>>

\* Lines 52-60 and the assignment of line 122.
NormalizeReturn(r) ==
    /\ run[r].pc = "normalized"
    /\ LET res == correct_address_with_gemini(run[r].reply, run[r].df[run[r].index + 1].address)
       IN  run' = [run EXCEPT ![r] =
                     [@ EXCEPT !.pc = "geocode", !.reply = NoReply,
                               !.normalized_address = res.address,
                               !.reported = @ \cup ({res.report} \ {"none"})]]
    /\ UNCHANGED <<store, now, runsStarted, probes>>

\* Mutant of NextCount: the increment of line 127 is lost.
NextCountStuck(monthly_count) == monthly_count

\* Mutant of NextCount: the count is incremented twice for one call.
NextCountTwice(monthly_count) == monthly_count + 2

\* monthly_count += 1
NextCount(monthly_count) == monthly_count + 1

\* Lines 126-128: geocode_address, then the in-memory count is incremented.
\* An exception that geocode_address does not catch leaves perform_geocoding.
Geocode(r, outcomes) ==
    /\ run[r].pc = "geocode"
    /\ \E o \in outcomes :
          LET g == geocode_address(o)
              called == [run[r] EXCEPT !.calls.geocoder = @ + 1]
              count == IntVal(NextCount(called.monthly_count.v))
          IN  run' = [run EXCEPT ![r] =
                        IF g.raised # "none" THEN Raise(called, g.raised)
                        ELSE [called EXCEPT !.pc = "save",
                                            !.geocode_result = g.result,
                                            !.reported = @ \cup ({g.report} \ {"none"}),
                                            !.monthly_count = count,
                                            !.counter_data.count = count]]
    /\ UNCHANGED <<store, now, runsStarted, probes>>

\* Line 129.  OSError leaves perform_geocoding: nothing catches it.
Save(r, outcomes) ==
    /\ run[r].pc = "save"
    /\ \E o \in outcomes :
          /\ store' = save_request_count(store, run[r].counter_data, o)
          /\ run' = [run EXCEPT ![r] =
                       IF o = "ok" THEN [@ EXCEPT !.pc = "select", !.calls.save = @ + 1]
                       ELSE Raise([@ EXCEPT !.calls.save = @ + 1], "OSError")]
    /\ UNCHANGED <<now, runsStarted, probes>>

\* Mutant of Select: refine_coordinates is called outside the if of line
\* 131, for a record without a candidate too.
SelectAlwaysRefines(r) ==
    /\ run[r].pc = "select"
    /\ run' = [run EXCEPT ![r] =
                 [@ EXCEPT !.pc = "refine",
                           !.location = IF Truthy(run[r].geocode_result)
                                        THEN SelectLocation(run[r].geocode_result.cands)
                                        ELSE NoLocation,
                           !.geocode_result = NoneResult]]
    /\ UNCHANGED <<store, now, runsStarted, probes>>

\* Lines 131-138, or lines 144-147 when geocode_result is falsy.
\* geocode_result is not read after line 136: it is dropped here.
Select(r) ==
    /\ run[r].pc = "select"
    /\ run' = [run EXCEPT ![r] =
                 IF Truthy(@.geocode_result)
                 THEN [@ EXCEPT !.pc = "refine",
                                !.location = SelectLocation(run[r].geocode_result.cands),
                                !.geocode_result = NoneResult]
                 ELSE [@ EXCEPT !.pc = "loop", !.fail_count = @ + 1, !.index = @ + 1,
                                !.geocode_result = NoneResult]]
    /\ UNCHANGED <<store, now, runsStarted, probes>>

\* Mutant of WriteCoordinates: the pair is written one row too far.
WriteCoordinatesOffByOne(df, row, lat, lng) ==
    [df EXCEPT ![row + 1].latitude = lat, ![row + 1].longitude = lng]

\* df.at[index, 'latitude'] = refined_lat; df.at[index, 'longitude'] = refined_lng
WriteCoordinates(df, row, lat, lng) ==
    [df EXCEPT ![row].latitude = lat, ![row].longitude = lng]

\* Line 140 up to the answer of model.generate_content (line 72).
RefineCall(r, replies) ==
    /\ run[r].pc = "refine"
    /\ \E rep \in replies :
          run' = [run EXCEPT ![r] =
                    [@ EXCEPT !.pc = "refined", !.reply = rep,
                              !.calls.refiner = @ + 1]]
    /\ UNCHANGED <<store, now, runsStarted, probes>>

\* Lines 73-88, then lines 141-147.
RefineReturn(r) ==
    /\ run[r].pc = "refined"
    /\ LET res == refine_coordinates(run[r].reply, run[r].location.lat, run[r].location.lng)
           row == run[r].index + 1
       IN  run' = [run EXCEPT ![r] =
                     [@ EXCEPT !.pc = "loop", !.reply = NoReply,
                               !.df = WriteCoordinates(run[r].df, row, res.lat, res.lng),
                               !.reported = @ \cup ({res.report} \ {"none"}),
                               !.success_count = @ + 1,
                               !.index = @ + 1]]
    /\ UNCHANGED <<store, now, runsStarted, probes>>

\* The calendar month changes.
Tick ==
    /\ now < MaxMonth
    /\ now' = now + 1
    /\ UNCHANGED <<store, runsStarted, probes, run>>

\* The process is ended from outside at any point of a run.  Inside
\* save_request_count it can end after open(..., "w") has truncated the file
\* and before json.dump has written it.
Terminate(r) ==
    /\ run[r].pc \notin {"idle", "done", "crashed"}
    /\ store' \in (IF run[r].pc = "save" THEN {store, BadJsonFile} ELSE {store})
    /\ run' = [run EXCEPT ![r] = Raise(@, "Killed")]
    /\ UNCHANGED <<now, runsStarted, probes>>

\* A page render: main reads the counter for the sidebar (lines 198-200) and
\* check_google_maps_status asks the geocoding service for "Tokyo" (line
\* 163), whatever the counter says; every outcome of that call is turned into
\* a status text (lines 164-169).  A counter without "count" ends the script
\* at line 199, before the call.
Render ==
    /\ probes < MaxRenders
    /\ load_request_count(store, now).count # Missing
    /\ probes' = probes + 1
    /\ UNCHANGED <<store, now, runsStarted, run>>

(***************************************************************************)
(* Specifications.                                                         *)
(***************************************************************************)
\* One session: runs of perform_geocoding follow one another.
Step(r) ==
    \/ StartRun(r, 0..MaxRows)
    \/ LoopTop(r)
    \/ NormalizeCall(r, NormalizerReplies)
    \/ NormalizeReturn(r)
    \/ Geocode(r, GeocodeOutcomes)
    \/ Save(r, SaveOutcomes)
    \/ Select(r)
    \/ RefineCall(r, RefinerReplies)
    \/ RefineReturn(r)

Next == Step("A") \/ Tick

Spec == Init /\ [][Next]_vars

\* Two sessions run perform_geocoding interleaved against the same quota
\* file, within one calendar month.  The text-completion and geocoding
\* services answer from smaller sets: the counter does not read their answers.
ConcurrentFiles == {AbsentFile, ObjectFile(1, IntVal(REQUEST_LIMIT - 1))}

ConcurrentGeocodeOutcomes ==
    {GeocodeOutcome("ok", <<>>),
     GeocodeOutcome("ok", <<Candidate(1, "ROOFTOP")>>)}

InitConc ==
    /\ store \in ConcurrentFiles
    /\ now = 1
    /\ runsStarted = 0
    /\ probes = 0
    /\ run = [r \in Runs |-> IdleRun]

StepConc(r) ==
    \/ StartRun(r, 1..MaxRows)
    \/ LoopTop(r)
    \/ NormalizeCall(r, {TextReply("prose", FALSE, FALSE, None, None)})
    \/ NormalizeReturn(r)
    \/ Geocode(r, ConcurrentGeocodeOutcomes)
    \/ Save(r, SaveOutcomes)
    \/ Select(r)
    \/ RefineCall(r, {TextReply("object", TRUE, TRUE, RefinedLat, RefinedLng)})
    \/ RefineReturn(r)

NextConc == \E r \in Runs : StepConc(r)

SpecConc == InitConc /\ [][NextConc]_vars

\* One session within one calendar month: page renders and runs of
\* perform_geocoding, the counter file holding the calls counted so far.
RenderCounts == {0, REQUEST_LIMIT - 1, REQUEST_LIMIT}

InitRender ==
    /\ store \in {ObjectFile(1, IntVal(c)) : c \in RenderCounts}
    /\ now = 1
    /\ runsStarted = 0
    /\ probes = 0
    /\ run = [r \in Runs |-> IdleRun]

NextRender == Render \/ StepConc("A")

SpecRender == InitRender /\ [][NextRender]_vars

\* One session within one calendar month whose process can be ended at any
\* point.
NextKill == StepConc("A") \/ Terminate("A")

SpecKill == InitConc /\ [][NextKill]_vars

(***************************************************************************)
(* Properties.                                                             *)
(***************************************************************************)
IsAbsent(row) == row.latitude = None /\ row.longitude = None

\* Rows of df that the loop did not reach.
Unreached(r) == (run[r].index + 1)..Len(run[r].df)

\* The run is at the top of an iteration with its count at the ceiling.
AtCeiling(r) ==
    /\ run[r].pc = "loop"
    /\ run[r].index < Len(run[r].df)
    /\ run[r].monthly_count.t = "int"
    /\ run[r].monthly_count.v >= REQUEST_LIMIT

C1_HaltStep ==
    \A r \in Runs :
        AtCeiling(r) /\ run'[r] # run[r]
        => /\ run'[r].pc = "done"
           /\ run'[r].calls = run[r].calls
           /\ run'[r].df = run[r].df
           /\ store' = store

C1_AfterHalt ==
    \A r \in Runs :
        run[r].pc = "done"
        => /\ \A k \in Unreached(r) : IsAbsent(run[r].df[k])
           /\ run[r].calls.normalizer = run[r].index
           /\ run[r].calls.geocoder = run[r].index
           /\ run[r].calls.save = run[r].index
           /\ run[r].calls.refiner <= run[r].index
           /\ (Unreached(r) # {} => run[r].monthly_count.v >= REQUEST_LIMIT)
           /\ (run[r].loaded.t = "int" /\ run[r].loaded.v >= REQUEST_LIMIT
               => /\ run[r].calls = NoCalls
                  /\ \A k \in 1..Len(run[r].df) : IsAbsent(run[r].df[k]))

\* C1: once the in-memory count is >= REQUEST_LIMIT at the top of a loop
\* iteration, the run ends without any further normalizer, geocoder or
\* refiner call and without a save; the records from that one on keep
\* latitude and longitude absent; a run that loaded a count >= REQUEST_LIMIT
\* makes no call at all.
C1_QuotaCeiling == [][C1_HaltStep]_vars /\ []C1_AfterHalt

\* A run stopped by the ceiling after it had made a geocoding call.
C1_Witness ==
    \E r \in Runs :
        /\ run[r].pc = "done"
        /\ Unreached(r) # {}
        /\ run[r].calls.geocoder >= 1

\* The step is a call of the geocoding service by run r.
GeocodeCallBy(r) == run'[r].calls.geocoder = run[r].calls.geocoder + 1

\* C2: every call of the geocoding service, whatever its outcome, increases
\* the in-memory monthly count by exactly 1 and is followed by the save of
\* that count.
C2_EveryCallCounted ==
    [][\A r \in Runs :
          GeocodeCallBy(r)
          => /\ run'[r].monthly_count.v = run[r].monthly_count.v + 1
             /\ run'[r].counter_data.count = run'[r].monthly_count
             /\ run'[r].pc = "save"]_vars

\* C3: a geocoding call that fails with ApiError, HTTPError, Timeout or
\* TransportError is reported, the record is treated as NotFound (coordinates
\* absent, fail_count incremented, no refiner call) and the loop goes on
\* with the next record.
C3_FailedCallStep ==
    \A r \in Runs :
        GeocodeCallBy(r) /\ (run'[r].exc # "none" \/ run'[r].geocode_result.none)
        => /\ "gmaps_error" \in run'[r].reported
           /\ run'[r].exc = "none"
           /\ run'[r].pc = "save"

C3_NotFoundStep ==
    \A r \in Runs :
        run[r].pc = "select" /\ run[r].geocode_result.none /\ run'[r] # run[r]
        => /\ run'[r].pc = "loop"
           /\ run'[r].index = run[r].index + 1
           /\ run'[r].fail_count = run[r].fail_count + 1
           /\ run'[r].success_count = run[r].success_count
           /\ run'[r].calls.refiner = run[r].calls.refiner
           /\ run'[r].df = run[r].df
           /\ IsAbsent(run[r].df[run[r].index + 1])

C3_GeocodeErrorIsNotFound == [][C3_FailedCallStep /\ C3_NotFoundStep]_vars

\* The count load_request_count hands out for the file in month m.
CountSeenByLoad(file, m) ==
    LET data == load_request_count(file, m)
    IN  IF data.count.t = "int" THEN data.count.v ELSE 0

C4_NeverDecreases ==
    now' = now => CountSeenByLoad(store', now') >= CountSeenByLoad(store, now)

\* The step is the start of a run by r: lines 100-109.
LoadBy(r) == runsStarted' = runsStarted + 1 /\ run'[r] # run[r]

C4_NewMonthLoad ==
    \A r \in Runs :
        LoadBy(r) /\ store.kind = "obj" /\ store.month # now
        => run'[r].counter_data = [month |-> now, count |-> IntVal(0)]

\* C4: with one run at a time, within one calendar month the count that the
\* durable store holds and load_request_count returns never decreases, and a
\* load made when the stored month differs from the current month returns
\* count 0 and the current month.
C4_MonotoneWithinMonth == [][C4_NeverDecreases /\ C4_NewMonthLoad]_vars

\* The step is a save by run r that replaced the file.
SavedBy(r) == run[r].pc = "save" /\ run'[r].pc = "select"

\* C5 as stated: with two runs interleaved on the same file, no save writes
\* a count lower than the count stored.
C5_StoredCountMonotone ==
    [][store.kind = "obj" /\ store'.kind = "obj" /\ store'.month = store.month
       /\ store.count.t = "int" /\ store'.count.t = "int"
       => store'.count.v >= store.count.v]_vars

\* C5 amended: every save of a run writes that run's own count, which is the
\* count it loaded at its start plus the number of geocoding calls it has
\* made, one more than its previous save wrote.
C5_SaveWritesOwnCount ==
    [][\A r \in Runs :
          SavedBy(r)
          => /\ store' = ObjectFile(run[r].counter_data.month,
                                    IntVal(run[r].loaded.v + run[r].calls.geocoder))
             /\ run[r].calls.geocoder = run[r].calls.save + 1]_vars

\* The file holds a count lower than one a run has already saved: the other
\* run's save overwrote it.
C5_Witness ==
    \E r \in Runs :
        /\ run[r].calls.save >= 2
        /\ \E q \in Runs \ {r} : run[q].pc = "select" /\ run[q].calls.save >= 1
        /\ store.kind = "obj"
        /\ store.count.v < run[r].loaded.v + run[r].calls.save

\* The contents of the file that C6 lists.
Unusable(file) ==
    \/ file.kind # "obj"
    \/ file.month = NoMonth
    \/ file.count.t # "int"

\* C6: for every such content load_request_count returns the current month
\* with count 0, and the read of counter_data["count"] and its comparison
\* with REQUEST_LIMIT do not fail.
C6_LoadNeverFails ==
    [][\A r \in Runs :
          LoadBy(r) /\ Unusable(store)
          => run'[r].counter_data = [month |-> now, count |-> IntVal(0)]]_vars
    /\ [](\A r \in Runs : run[r].exc \notin {"KeyError", "TypeError"})

\* C7: a save that fails does not end the run: the current record goes on
\* to selection.
C7_SaveFailureNonFatal ==
    [][\A r \in Runs :
          run[r].pc = "save" /\ run'[r] # run[r]
          => run'[r].pc = "select" /\ run'[r].exc = "none"]_vars

\* The location the selection policy names for a non-empty candidate list:
\* that of the ROOFTOP candidate with the least position if there is one,
\* else that of the candidate at position 1.
PolicyLocation(cands) ==
    LET rooftops == {k \in 1..Len(cands) : cands[k].location_type = "ROOFTOP"}
        pick == IF rooftops # {}
                THEN CHOOSE k \in rooftops : \A j \in rooftops : k <= j
                ELSE 1
    IN  [lat |-> cands[pick].lat, lng |-> cands[pick].lng]

C8_SelectStep ==
    \A r \in Runs :
        run[r].pc = "select" /\ run'[r] # run[r]
        => LET res == run[r].geocode_result
           IN  IF ~res.none /\ Len(res.cands) > 0
               THEN /\ run'[r].pc = "refine"
                    /\ run'[r].location = PolicyLocation(res.cands)
               ELSE /\ run'[r].pc = "loop"
                    /\ run'[r].location = NoLocation
                    /\ run'[r].calls.refiner = run[r].calls.refiner
                    /\ run'[r].df = run[r].df
                    /\ IsAbsent(run[r].df[run[r].index + 1])

C8_FailedCall ==
    \A r \in Runs :
        run[r].pc = "crashed" /\ run[r].exc \in GeocodeErrors
        => /\ run[r].location = NoLocation
           /\ IsAbsent(run[r].df[run[r].index + 1])

\* C8: for a non-empty candidate list the location chosen is that of the
\* first ROOFTOP candidate if there is one and else that of the first
\* candidate; for an empty list or a failed call no location is chosen and
\* the record keeps its coordinates absent.
C8_CandidateSelection == [][C8_SelectStep]_vars /\ []C8_FailedCall

\* A ROOFTOP candidate that is not the first of the list was chosen.
C8_Witness ==
    \E r \in Runs :
        /\ run[r].pc = "refine"
        /\ run[r].location.lat = Candidate(2, "ROOFTOP").lat
        /\ run[r].location.lng = Candidate(2, "ROOFTOP").lng

\* The reply is a JSON object that has both keys.
ObjectWithBoth(reply) ==
    reply.kind = "text" /\ reply.form = "object" /\ reply.haslat /\ reply.haslng

\* C9: refine_coordinates never raises; it returns the lat and lng of the
\* reply when the reply is a JSON object with both keys, and for every other
\* outcome of the call exactly the pair it was given.
C9_RefinerFallback ==
    [][\A r \in Runs :
          run[r].pc = "refined" /\ run'[r] # run[r]
          => LET row == run'[r].df[run[r].index + 1]
             IN  /\ run'[r].pc = "loop"
                 /\ run'[r].exc = "none"
                 /\ IF ObjectWithBoth(run[r].reply)
                    THEN /\ row.latitude = run[r].reply.lat
                         /\ row.longitude = run[r].reply.lng
                    ELSE /\ row.latitude = run[r].location.lat
                         /\ row.longitude = run[r].location.lng]_vars

\* refine_coordinates fell back to the geocoder's pair after a reply that is
\* JSON but no object with both keys.
C9_Witness ==
    \E r \in Runs :
        /\ run[r].pc = "loop"
        /\ run[r].index >= 1
        /\ run[r].reported \cap {"refine_error", "refine_warning"} # {}
        /\ run[r].df[run[r].index].latitude = run[r].location.lat
        /\ run[r].df[run[r].index].longitude = run[r].location.lng
        /\ run[r].location # NoLocation

\* C10: after a run the table has the records of the input, in the input's
\* order, with every column but latitude and longitude unchanged, and the
\* records the loop did not reach have latitude and longitude absent.
C10_FramePreserved ==
    \A r \in Runs :
        run[r].pc = "done"
        => /\ Len(run[r].df) = Len(run[r].input)
           /\ \A k \in 1..Len(run[r].df) : run[r].df[k].address = run[r].input[k]
           /\ \A k \in Unreached(r) : IsAbsent(run[r].df[k])

\* A run that wrote coordinates into a row and was stopped by the ceiling
\* before the last row.
C10_Witness ==
    \E r \in Runs :
        /\ run[r].pc = "done"
        /\ Unreached(r) # {}
        /\ run[r].success_count >= 1
        /\ ~IsAbsent(run[r].df[1])

\* The records the loop has finished whose latitude and longitude are both
\* present.
WithCoordinates(r) ==
    {k \in 1..run[r].index :
        run[r].df[k].latitude # None /\ run[r].df[k].longitude # None}

\* C11: a record's latitude or longitude is absent only if the record was
\* not reached or its geocoding was NotFound: the records counted in
\* success_count all have both latitude and longitude present, whatever the
\* refiner answered.
C11_SuccessHasCoordinates ==
    \A r \in Runs :
        run[r].pc \in {"loop", "done"}
        => Cardinality(WithCoordinates(r)) = run[r].success_count

\* C12: a run ends only by reporting its statistics (no run ends on an
\* exception, whatever the normalizer, the geocoder, the refiner and the save
\* of the counter do), and when it has ended every record is in exactly one
\* of DONE (counted in success_count), SKIPPED_NOTFOUND (counted in
\* fail_count) and SKIPPED_QUOTA (not reached), records being left unreached
\* only with the count at the ceiling.
C12_EndsReportingStatistics ==
    \A r \in Runs :
        /\ run[r].pc # "crashed"
        /\ run[r].pc = "done"
           => /\ run[r].success_count + run[r].fail_count
                     + Cardinality(Unreached(r)) = Len(run[r].df)
              /\ Unreached(r) # {}
                 => /\ run[r].monthly_count.t = "int"
                    /\ run[r].monthly_count.v >= REQUEST_LIMIT

\* The count the file held before the session made its first call: the
\* calls of the month counted so far.
CountAtStart ==
    IF run["A"].pc = "idle" THEN CountSeenByLoad(store, now)
    ELSE run["A"].loaded.v

\* C13: within one calendar month, over page renders and runs of
\* perform_geocoding, the calls made of the geocoding service (those counted
\* before, those of the run and those of the page renders) never exceed
\* REQUEST_LIMIT.  (Stated over the page renders and the first run.)
C13_CallsWithinLimit ==
    runsStarted <= 1
    => CountAtStart + probes + run["A"].calls.geocoder <= REQUEST_LIMIT

\* The geocoding calls the run has made so far that the durable count does
\* not show: calls made, less the durable count's advance over the count
\* loaded at line 108.
CallsAtRisk(r) ==
    run[r].calls.geocoder - (CountSeenByLoad(store, now) - run[r].loaded.v)

\* C14: with a single run that can be ended abruptly at any point, at every
\* state the geocoding calls made so far in the run less the advance of the
\* durable count over the count loaded at the start of the run is 0 or 1.
C14_AtMostOneCallAtRisk ==
    \A r \in Runs :
        run[r].pc # "idle" /\ run[r].loaded.t = "int"
        => CallsAtRisk(r) \in {0, 1}

\* With index records finished (DONE or SKIPPED), the calls made so far are
\* those of the finished records and, in this order, those of record
\* index + 1: normalizer, geocoder, save, refiner.
CallsInOrder(r) ==
    LET c == run[r].calls
        i == run[r].index
    IN  /\ c.normalizer \in {i, i + 1}
        /\ c.geocoder \in {i, i + 1}
        /\ c.save \in {i, i + 1}
        /\ c.refiner \in {run[r].success_count, run[r].success_count + 1}
        /\ c.geocoder <= c.normalizer
        /\ c.save <= c.geocoder
        /\ c.refiner = run[r].success_count + 1 => c.save = i + 1
        /\ i = run[r].success_count + run[r].fail_count
        /\ run[r].pc \in {"loop", "normalize", "done"}
           => c.normalizer = i /\ c.refiner = run[r].success_count
        /\ run[r].pc \in {"geocode", "save", "select", "refine", "refined"}
           => run[r].normalized_address.base = run[r].input[i + 1].base

\* The step is a call of the refiner by r.
RefinerCallBy(r) == run'[r].calls.refiner = run[r].calls.refiner + 1

\* C15: the records are processed one at a time in input order: for each
\* record the normalizer call precedes the geocoding call, which precedes the
\* save of the counter, which precedes the refiner call; the refiner is
\* called only when a candidate was selected; no call is made for record
\* i + 1 before record i is DONE or SKIPPED.
C15_OneRecordAtATime ==
    /\ [](\A r \in Runs : CallsInOrder(r))
    /\ [][\A r \in Runs :
             RefinerCallBy(r)
             => /\ run[r].location # NoLocation
                /\ run[r].calls.save = run[r].index + 1]_vars

\* The refiner is being called for the second record after the first record
\* was skipped without a candidate.
C15_Witness ==
    \E r \in Runs :
        /\ run[r].pc = "refined"
        /\ run[r].index = 1
        /\ run[r].fail_count = 1
        /\ run[r].calls = [normalizer |-> 2, geocoder |-> 2, refiner |-> 1, save |-> 2]

\* The statistics of r agree with its calls and with its count.
StatisticsConsistent(r) ==
    LET n == run[r].success_count + run[r].fail_count
    IN  /\ n = run[r].calls.geocoder
        /\ IF run[r].loaded.t = "int"
           THEN run[r].monthly_count = IntVal(run[r].loaded.v + n)
           ELSE run[r].monthly_count = run[r].loaded /\ n = 0

\* The step finishes a record for which the geocoder answered with an empty
\* list of candidates.
EmptyListStep(r) ==
    /\ run[r].pc = "select"
    /\ run'[r].pc = "loop"
    /\ run[r].geocode_result = ListResult(<<>>)

\* C16: at every loop boundary and when the run ends reporting its
\* statistics, success_count + fail_count is the number of geocoding calls
\* made in the run and is the in-memory monthly count less the count loaded at
\* the start; a record for which the geocoder returned an empty list adds 1
\* to fail_count and 1 to the monthly count, nothing to success_count, and
\* its coordinates stay absent.
C16_StatisticsMatchCalls ==
    /\ [](\A r \in Runs :
             run[r].pc \in {"loop", "done"} => StatisticsConsistent(r))
    /\ [][\A r \in Runs :
             EmptyListStep(r)
             => /\ run'[r].fail_count = run[r].fail_count + 1
                /\ run'[r].success_count = run[r].success_count
                /\ run'[r].monthly_count
                      = IntVal(run[r].loaded.v + run[r].index + 1)
                /\ run'[r].df = run[r].df
                /\ IsAbsent(run'[r].df[run[r].index + 1])]_vars

\* A run at a loop boundary after one record with a candidate and one record
\* for which the geocoder returned an empty list without reporting an error.
C16_Witness ==
    \E r \in Runs :
        /\ run[r].pc = "loop"
        /\ run[r].index = 2
        /\ run[r].success_count = 1
        /\ run[r].fail_count = 1
        /\ run[r].calls.geocoder = 2
        /\ IsAbsent(run[r].df[2])
        /\ "gmaps_error" \notin run[r].reported
        /\ run[r].monthly_count = IntVal(run[r].loaded.v + 2)

\* C17: every record that a run writes to the counter file carries the
\* calendar month current at the time of the write (after a change of month
\* in the middle of a run the calls are recorded under the new month).
C17_SavedMonthIsCurrent ==
    [][\A r \in Runs : SavedBy(r) => store'.month = now]_vars

\* The step is the return of correct_address_with_gemini to r.
NormalizerReturnBy(r) == run[r].pc = "normalized" /\ run'[r].pc = "geocode"

\* C18: correct_address_with_gemini returns a usable address and reports
\* exactly the failures that are no rate limit: a non-empty text is returned
\* in place of the raw address; on an empty or absent text and on a rate
\* limit the raw address is returned and nothing is reported; on any other
\* failure, whatever its message (one that contains "429" included), the raw
\* address is returned and the failure is reported.
C18_NormalizerReports ==
    [][\A r \in Runs :
          NormalizerReturnBy(r)
          => LET raw == run[r].df[run[r].index + 1].address
                 reply == run[r].reply
                 failed == reply.kind \in {"error", "error429"}
             IN  /\ run'[r].normalized_address
                       = IF reply.kind = "text" /\ reply.form # "empty"
                         THEN CorrectedAddress(raw.base) ELSE raw
                 /\ "norm_error" \in run'[r].reported <=> failed]_vars

=============================================================================
